---- MODULE Spec2Model ----
(***************************************************************************)
(* Model of library/degree_distribution.py and library/modelling.py of     *)
(* connectome-analysis.  A sparse boolean adjacency matrix is a record     *)
(*   [n |-> number of nodes, fmt |-> storage format, E |-> stored entries] *)
(* where E is the set of <<row, col>> positions holding True.  Floating    *)
(* point quotients are kept exact: Div(a, b) is the reduced fraction       *)
(* <<a', b'>>, with <<0, 0>> for NaN and <<1, 0>>, <<-1, 0>> for +-inf.    *)
(***************************************************************************)
EXTENDS Integers, Sequences, FiniteSets, TLC

VARIABLES M, nrn, pc, call, ret

vars == <<M, nrn, pc, call, ret>>

(***************************************************************************)
(* Bounds of the model                                                     *)
(***************************************************************************)
NumNodes == 3
MaxEdges == 3
NumNodesRC == 4
NumNodesGini == 4
NumNeurons == 3
MaxEdgesX == 2
MaxPos == 2
MaxDepth == 1
MaxRange == 2
MaxBinSize == 2

\* The matrices of the rich-club and of the Gini analyzer hold as many
\* entries as the worked examples: the 4-node matrix with the edges 0->1,
\* 0->2, 1->2, 2->3 and a matrix of degrees [3, 1, 1, 1].
ExampleEdges == {<<0, 1>>, <<0, 2>>, <<1, 2>>, <<2, 3>>}
ExampleDegrees == <<3, 1, 1, 1>>
MaxEdgesRC == Cardinality(ExampleEdges)
MaxEdgesGini == ExampleDegrees[1] + ExampleDegrees[2] + ExampleDegrees[3] + ExampleDegrees[4]

(***************************************************************************)
(* Arithmetic helpers                                                      *)
(***************************************************************************)
RECURSIVE Gcd(_, _)
Gcd(a, b) == IF b = 0 THEN a ELSE Gcd(b, a % b)

Abs(x) == IF x < 0 THEN -x ELSE x

Sign(x) == IF x < 0 THEN -1 ELSE IF x > 0 THEN 1 ELSE 0

\* A float is an exact fraction <<numerator, denominator>> in lowest terms
\* with a positive denominator; <<0, 0>> is NaN, <<1, 0>> and <<-1, 0>> are
\* +inf and -inf.
NaN == <<0, 0>>
IsNaN(x) == x = NaN
IsFinite(x) == x[2] # 0

\* numpy float division a / b of two integers
Div(a, b) ==
    IF b = 0
    THEN <<Sign(a), 0>>
    ELSE LET g == Gcd(Abs(a), Abs(b))
             s == IF b < 0 THEN -1 ELSE 1
         IN  <<(s * a) \div g, (s * b) \div g>>

\* float addition
FAdd(x, y) ==
    IF IsNaN(x) \/ IsNaN(y) THEN NaN
    ELSE IF ~IsFinite(x) /\ ~IsFinite(y) THEN (IF x = y THEN x ELSE NaN)
    ELSE IF ~IsFinite(x) THEN x
    ELSE IF ~IsFinite(y) THEN y
    ELSE Div(x[1] * y[2] + y[1] * x[2], x[2] * y[2])

\* float multiplication
FMul(x, y) ==
    IF IsNaN(x) \/ IsNaN(y) THEN NaN
    ELSE IF ~IsFinite(x) \/ ~IsFinite(y)
         THEN <<Sign(x[1]) * Sign(y[1]), 0>>
    ELSE Div(x[1] * y[1], x[2] * y[2])

FNeg(x) == <<-x[1], x[2]>>

FAbs(x) == <<Abs(x[1]), x[2]>>

\* float division
FDiv(x, y) ==
    IF IsNaN(x) \/ IsNaN(y) THEN NaN
    ELSE IF ~IsFinite(y) THEN (IF IsFinite(x) THEN <<0, 1>> ELSE NaN)
    ELSE IF ~IsFinite(x) THEN (IF y[1] < 0 THEN FNeg(x) ELSE x)
    ELSE IF y[1] = 0 THEN <<Sign(x[1]), 0>>
    ELSE Div(x[1] * y[2], x[2] * y[1])

\* x <= y on floats; every comparison with NaN is false
FLeq(x, y) ==
    /\ ~IsNaN(x) /\ ~IsNaN(y)
    /\ IF IsFinite(x) /\ IsFinite(y) THEN x[1] * y[2] <= y[1] * x[2]
       ELSE IF ~IsFinite(x) THEN (x[1] < 0 \/ x = y)
       ELSE y[1] > 0

FLt(x, y) == FLeq(x, y) /\ x # y

Float(i) == <<i, 1>>

RECURSIVE FSum(_)
FSum(s) == IF s = <<>> THEN Float(0) ELSE FAdd(Head(s), FSum(Tail(s)))

RECURSIVE SumSeq(_)
SumSeq(s) == IF s = <<>> THEN 0 ELSE Head(s) + SumSeq(Tail(s))

\* np.cumsum
CumSum(s) == [i \in 1..Len(s) |-> SumSeq(SubSeq(s, 1, i))]

\* a[-1::-1]
Reverse(s) == [i \in 1..Len(s) |-> s[Len(s) + 1 - i]]

(***************************************************************************)
(* Sparse matrices                                                         *)
(***************************************************************************)
Nodes(n) == 0..(n - 1)
Cells(n) == Nodes(n) \X Nodes(n)
Formats == {"csr", "csc", "coo"}

\* m.sum(axis=1): number of stored True entries per row (out-degree)
RowSum(E, n) == [i \in Nodes(n) |-> Cardinality({e \in E : e[1] = i})]
\* m.sum(axis=0): number of stored True entries per column (in-degree)
ColSum(E, n) == [j \in Nodes(n) |-> Cardinality({e \in E : e[2] = j})]

MaxOf(S) == CHOOSE x \in S : \A y \in S : y <= x

\* The boolean n x n matrices with at most k entries: bit r * n + c of a mask
\* says whether position <<r, c>> holds True.
RECURSIVE Masks(_, _)
Masks(bits, k) ==
    IF k = 0 THEN {0}
    ELSE {0} \cup {q[1] + 2 ^ q[2] :
                      q \in {p \in Masks(bits, k - 1) \X (0..(bits - 1)) : p[1] < 2 ^ p[2]}}

EntriesOf(mask, n) == {e \in Cells(n) : (mask \div 2 ^ (e[1] * n + e[2])) % 2 = 1}

Matrix(n, fmt, mask) == [n |-> n, fmt |-> fmt, E |-> EntriesOf(mask, n)]

(***************************************************************************)
(* gini_curve and gini_coefficient                                         *)
(***************************************************************************)
\* a function on 0..n-1 as the array of its values
AsSeq(f, n) == [i \in 1..n |-> f[i - 1]]

\* sorted(): ascending insertion sort of a sequence of integers
RECURSIVE Insert(_, _)
Insert(x, s) ==
    IF s = <<>> THEN <<x>>
    ELSE IF x <= Head(s) THEN <<x>> \o s
    ELSE <<Head(s)>> \o Insert(x, Tail(s))

RECURSIVE sorted(_)
sorted(s) == IF s = <<>> THEN <<>> ELSE Insert(Head(s), sorted(Tail(s)))

\* ndarray.flatten() of a two-dimensional array given as its sequence of rows
RECURSIVE Flatten(_)
Flatten(rows) == IF rows = <<>> THEN <<>> ELSE Head(rows) \o Flatten(Tail(rows))

\* lines 11-17: the degrees in the order in which line 17 accumulates them.
\* afferent: np.array(m.sum(axis=0)).flatten() is a 1-d array, sorted() sorts
\* its numbers and flipud reverses them.  efferent: np.array(m.sum(axis=1)
\* .flatten()) is a 2-d array of one row, sorted() iterates over its rows and
\* flipud reverses the order of its rows, so the single row keeps the order
\* of the nodes and cumsum runs over it flattened.
Accumulated(m, direction) ==
    IF direction = "afferent"
    THEN Reverse(sorted(AsSeq(ColSum(m.E, m.n), m.n)))
    ELSE Flatten(Reverse(<<AsSeq(RowSum(m.E, m.n), m.n)>>))

\* np.linspace(0, 1, num)
LinspaceFromOne(num) == [k \in 1..num |-> Div(k, num)]

Linspace01(num) ==
    [k \in 1..num |-> IF num = 1 THEN Float(0) ELSE Div(k - 1, num - 1)]

\* lines 9-18: the Series as the sequence of its (index, value) points
gini_curve(m, direction) ==
    IF direction \notin {"afferent", "efferent"}
    THEN [status |-> "Exception", curve |-> <<>>]
    ELSE LET acc   == Accumulated(m, direction)
             cs    == CumSum(acc)
             total == SumSeq(acc)
             index == Linspace01(Len(cs))
         IN  [status |-> "ok",
              curve  |-> [k \in 1..Len(cs) |->
                            [rank |-> index[k], val |-> Div(cs[k], total)]]]

\* line 25: np.diff(A) * (B[:-1] + B[1:]) / 2.0, one term per interval
RectangleTerm(A, B, i) == FMul(FAdd(A[i + 1], FNeg(A[i])), B[i])

TrapezoidTerm(A, B, i) ==
    FDiv(FMul(FAdd(A[i + 1], FNeg(A[i])), FAdd(B[i], B[i + 1])), Float(2))

\* lines 21-25
gini_coefficient(m, direction) ==
    LET gc == gini_curve(m, direction)
    IN  IF gc.status # "ok"
        THEN [status |-> gc.status, val |-> NaN]
        ELSE LET A == [k \in DOMAIN gc.curve |-> gc.curve[k].rank]
                 B == [k \in DOMAIN gc.curve |-> gc.curve[k].val]
             IN  [status |-> "ok",
                  val |-> FSum([i \in 1..(Len(A) - 1) |-> TrapezoidTerm(A, B, i)])]

(***************************************************************************)
(* rich_club_curve (naive)                                                 *)
(***************************************************************************)
\* lines 64-69: the degree vector of the chosen direction
DirDegrees(m, direction) ==
    IF direction = "afferent" THEN ColSum(m.E, m.n) ELSE RowSum(m.E, m.n)

\* line 77: number of potential edges among the nodes of degree >= i
EdgeCounterSquare(degrees, i) ==
    LET c == Cardinality({v \in DOMAIN degrees : degrees[v] >= i})
    IN  c * c

edge_counter(degrees, i) ==
    LET c == Cardinality({v \in DOMAIN degrees : degrees[v] >= i})
    IN  c * (c - 1)

\* line 78: number of actual edges of the induced submatrix
mat_counter(m, degrees, i) ==
    Cardinality({e \in m.E : degrees[e[1]] >= i /\ degrees[e[2]] >= i})

rich_club_curve(m, direction) ==
    IF direction \notin {"afferent", "efferent"}
    THEN [status |-> "Exception", curve |-> <<>>]
    ELSE LET degrees  == DirDegrees(m, direction)
             mx       == MaxOf({degrees[v] : v \in DOMAIN degrees})
         IN  [status |-> "ok",
              curve  |-> [i \in 1..mx |->
                            [k     |-> i,
                             edges |-> mat_counter(m, degrees, i),
                             pairs |-> edge_counter(degrees, i),
                             val   |-> Div(mat_counter(m, degrees, i),
                                           edge_counter(degrees, i))]]]

(***************************************************************************)
(* efficient_rich_club_curve                                               *)
(***************************************************************************)
\* Series.value_counts(): only the values that occur get an entry
value_counts(E, axis, n) ==
    LET all == IF axis = "row" THEN RowSum(E, n) ELSE ColSum(E, n)
    IN  [v \in {u \in Nodes(n) : all[u] > 0} |-> all[v]]

\* lines 88-102: the richness of the nodes; "both" keeps every node
Richness(m, direction) ==
    IF direction = "efferent" THEN value_counts(m.E, "row", m.n)
    ELSE IF direction = "afferent" THEN value_counts(m.E, "col", m.n)
    ELSE LET row == RowSum(m.E, m.n)
             col == ColSum(m.E, m.n)
         IN  [v \in Nodes(m.n) |-> row[v] + col[v]]

\* sorted sequence of the elements of a finite set of integers (np.unique)
RECURSIVE SortedSeq(_)
SortedSeq(S) ==
    IF S = {} THEN <<>>
    ELSE LET lo == CHOOSE x \in S : \A y \in S : x <= y
         IN  <<lo>> \o SortedSeq(S \ {lo})

\* lines 104-107
DegreeBins(deg, sparse_bin_set) ==
    LET mx == MaxOf({deg[v] : v \in DOMAIN deg})
    IN  IF sparse_bin_set
        THEN SortedSeq({deg[v] : v \in DOMAIN deg} \cup {0, mx + 1})
        ELSE [i \in 1..(mx + 2) |-> i - 1]

\* np.histogram(values, bins)[0]: half-open bins, the last one closed
InBin(x, bins, b) ==
    /\ bins[b] <= x
    /\ IF b = Len(bins) - 1 THEN x <= bins[b + 1] ELSE x < bins[b + 1]

Histogram(f, bins) ==
    [b \in 1..(Len(bins) - 1) |->
        Cardinality({x \in DOMAIN f : InBin(f[x], bins, b)})]

\* lines 113-114
DegArr(deg, n) == [v \in Nodes(n) |-> IF v \in DOMAIN deg THEN deg[v] ELSE 0]

Min2(a, b) == IF a <= b THEN a ELSE b

\* line 118: every edge is ranked by the smaller richness of its endpoints
ConDegreeMax(deg_arr, E) ==
    [e \in E |-> IF deg_arr[e[1]] >= deg_arr[e[2]] THEN deg_arr[e[1]] ELSE deg_arr[e[2]]]

ConDegree(deg_arr, E) == [e \in E |-> Min2(deg_arr[e[1]], deg_arr[e[2]])]

efficient_rich_club_curve(m, direction, sparse_bin_set) ==
    IF direction \notin {"afferent", "efferent", "both"}
    THEN [status |-> "ValueError", curve |-> <<>>]
    ELSE
    LET deg == Richness(m, direction)
    IN  IF DOMAIN deg = {} /\ ~sparse_bin_set
        THEN \* deg.max() of an empty Series is NaN and np.arange(NaN) raises
             [status |-> "ValueError", curve |-> <<>>]
        ELSE IF DOMAIN deg = {}
        THEN \* line 107: the bins are np.unique([0, NaN]) = [0, NaN]; both
             \* histograms count nothing in the single bin, and 0 / 0 is NaN
             [status |-> "ok",
              curve  |-> <<[k |-> 0, edges |-> 0, pairs |-> 0, val |-> Div(0, 0)]>>]
        ELSE
        LET degree_bins     == DegreeBins(deg, sparse_bin_set)
            degree_bins_rv  == Reverse(SubSeq(degree_bins, 1, Len(degree_bins) - 1))
            nrn_cum_degrees == CumSum(Reverse(Histogram(deg, degree_bins)))
            nrn_cum_pairs   == [i \in DOMAIN nrn_cum_degrees |->
                                  nrn_cum_degrees[i] * (nrn_cum_degrees[i] - 1)]
            deg_arr         == DegArr(deg, m.n)
            con_degree      == Histogram(ConDegree(deg_arr, m.E), degree_bins)
            cum_degrees     == CumSum(Reverse(con_degree))
        IN  [status |-> "ok",
             curve  |-> [i \in 1..Len(degree_bins_rv) |->
                           [k     |-> degree_bins_rv[i],
                            edges |-> cum_degrees[i],
                            pairs |-> nrn_cum_pairs[i],
                            val   |-> Div(cum_degrees[i], nrn_cum_pairs[i])]]]

(***************************************************************************)
(* generate_degree_based_control                                           *)
(***************************************************************************)
\* lines 166, 170: the compressed format the shuffle works on
WorkFormatSwapped(direction) == IF direction = "efferent" THEN "csc" ELSE "csr"

WorkFormat(direction) == IF direction = "efferent" THEN "csr" ELSE "csc"

\* tocsr() / tocsc() return the matrix itself when it already has the format
SameObject(m, direction) == m.fmt = WorkFormat(direction)

\* indices[indptr[c]:indptr[c+1]] for every major index c: the columns of a
\* row in csr, the rows of a column in csc
Lines(m, fmt) ==
    IF fmt = "csr"
    THEN [c \in Nodes(m.n) |-> {e[2] : e \in {x \in m.E : x[1] = c}}]
    ELSE [c \in Nodes(m.n) |-> {e[1] : e \in {x \in m.E : x[2] = c}}]

FromLines(lines, fmt) ==
    IF fmt = "csr"
    THEN {e \in Cells(Cardinality(DOMAIN lines)) : e[2] \in lines[e[1]]}
    ELSE {e \in Cells(Cardinality(DOMAIN lines)) : e[1] \in lines[e[2]]}

\* lines 168, 172: M.mean over the major axis; only the support of the
\* weights matters for the outcomes, so the mean is kept as a fraction
p_out(m, direction) ==
    LET s == IF direction = "efferent" THEN ColSum(m.E, m.n) ELSE RowSum(m.E, m.n)
    IN  [i \in Nodes(m.n) |-> Div(s[i], m.n)]

\* lines 177-179: indices that keep a positive probability for line col
Support(p, col) == {i \in DOMAIN p : i # col /\ p[i][1] > 0}

\* np.random.choice(idxx, size, p=p, replace=False): the index sets it can
\* return; it raises when p is NaN (empty support) or supports fewer than
\* size indices
ChoiceFails(support, size) == support = {} \/ Cardinality(support) < size

ChoiceWithReplacement(support, size) ==
    {S \in SUBSET support : IF size = 0 THEN S = {} ELSE Cardinality(S) \in 1..size}

Choice(support, size) == {S \in SUBSET support : Cardinality(S) = size}

\* lines 176-182: the loop over the lines, from line col on
RECURSIVE ShuffleFrom(_, _, _)
ShuffleFrom(lines, p, col) ==
    IF col \notin DOMAIN lines
    THEN {[status |-> "ok", lines |-> lines]}
    ELSE LET size == Cardinality(lines[col])
             sup  == Support(p, col)
         IN  IF ChoiceFails(sup, size)
             THEN {[status |-> "ValueError", lines |-> lines]}
             ELSE UNION {ShuffleFrom([lines EXCEPT ![col] = S], p, col + 1) :
                            S \in Choice(sup, size)}

\* the outcomes of one call: the status and the entries of the matrix the
\* loop wrote to when it ended
generate_degree_based_control(m, direction) ==
    IF direction \notin {"efferent", "afferent"}
    THEN {[status |-> "ValueError", E |-> m.E]}
    ELSE LET fmt == WorkFormat(direction)
         IN  {[status |-> o.status, E |-> FromLines(o.lines, fmt)] :
                 o \in ShuffleFrom(Lines(m, fmt), p_out(m, direction), 0)}

(***************************************************************************)
(* normalized_rich_club_curve and its analytical null model                *)
(***************************************************************************)
\* scipy.stats.hypergeom.stats(M, n, N): mean and variance of the number of
\* successes in N draws from a population of M with n successes; NaN for
\* arguments outside the support of the distribution
hypergeom_stats(M_, n, N) ==
    IF ~(M_ > 0 /\ n >= 0 /\ N >= 0 /\ n <= M_ /\ N <= M_)
    THEN [mean |-> NaN, var |-> NaN]
    ELSE [mean |-> Div(N * n, M_),
          var  |-> Div((M_ - n) * n * N * (M_ - N), M_ * M_ * (M_ - 1))]

\* lines 127-156.  The std of a threshold is sqrt(sum of variances) / pairs;
\* the square root is not a fraction, so the std is kept as its square
\* std_sq = (sum of variances) / pairs^2.
analytical_expected_rich_club_curve(m, direction) ==
    IF direction \notin {"afferent", "efferent"}
    THEN [status |-> "Exception", curve |-> <<>>]
    ELSE LET indegree  == ColSum(m.E, m.n)
             outdegree == RowSum(m.E, m.n)
             degrees   == DirDegrees(m, direction)
             mx        == MaxOf({degrees[v] : v \in DOMAIN degrees})
             in_all    == SumSeq(AsSeq(indegree, m.n))
             S(deg)    == LET valid == {v \in Nodes(m.n) : degrees[v] >= deg}
                              i_s   == SumSeq(AsSeq([v \in Nodes(m.n) |->
                                          IF v \in valid THEN indegree[v] ELSE 0], m.n))
                          IN  [v \in valid |->
                                  hypergeom_stats(in_all - indegree[v],
                                                  i_s - indegree[v], outdegree[v])]
             Total(f, field) == FSum([i \in 1..m.n |->
                                   IF (i - 1) \in DOMAIN f THEN f[i - 1][field]
                                   ELSE Float(0)])
         IN  [status |-> "ok",
              curve  |-> [deg \in 1..mx |->
                            LET pairs == edge_counter(degrees, deg)
                            IN  [k      |-> deg,
                                 mean   |-> FDiv(Total(S(deg), "mean"), Float(pairs)),
                                 std_sq |-> FDiv(Total(S(deg), "var"),
                                                 Float(pairs * pairs))]]]

\* lines 212-222: the observed values B[:len(mn_r)] against the null mean and
\* std position by position.  With normalize = 'std' the quotient q of the
\* difference and the std is reported as q * |q|, which is a fraction.
Normalized(data, ctrl, normalize) ==
    LET len == Len(ctrl)
        B   == SubSeq(data, 1, Min2(len, Len(data)))
    IN  IF normalize \notin {"mean", "std"}
        THEN [status |-> "Exception", curve |-> <<>>]
        ELSE IF Len(B) # len
        THEN \* operands of different lengths do not broadcast
             [status |-> "ValueError", curve |-> <<>>]
        ELSE [status |-> "ok",
              curve  |-> [i \in 1..len |->
                            [k        |-> data[i].k,
                             observed |-> data[i].val,
                             ctrl_k   |-> ctrl[i].k,
                             val      |->
                                IF normalize = "mean"
                                THEN FDiv(B[i].val, ctrl[i].mean)
                                ELSE LET d == FAdd(B[i].val, FNeg(ctrl[i].mean))
                                     IN  FDiv(FMul(d, FAbs(d)), ctrl[i].std_sq)]]]

(***************************************************************************)
(* modelling.py: bin-conditioned connection probabilities.  The neuron     *)
(* table t holds one integer coordinate (coord_names of one axis) and one  *)
(* integer depth per neuron, so that every distance is an integer.  A      *)
(* pairwise matrix over the source rows src is a function on               *)
(* src \X Nodes(n).                                                        *)
(***************************************************************************)
\* lines 106-111: distances, a distance of 0 is replaced by NaN
compute_dist_matrix(t, src) ==
    [q \in src \X DOMAIN t.pos |->
        LET d == Abs(t.pos[q[1]] - t.pos[q[2]])
        IN  IF d = 0 THEN NaN ELSE Float(d)]

\* lines 114-121: meshgrid(src, tgt, 'ij') stacks (S, T); diff along the stack
\* is T - S, and the sign is taken of its negation S - T
TargetMinusSource(t, src) ==
    [q \in src \X DOMAIN t.depth |-> Float(Sign(t.depth[q[2]] - t.depth[q[1]]))]

compute_bip_matrix(t, src) ==
    [q \in src \X DOMAIN t.depth |-> Float(Sign(t.depth[q[1]] - t.depth[q[2]]))]

\* line 143: the selection of one covariate for bin i (1-based) of bins
InDepBinHalfOpen(v, bins, i) == FLeq(bins[i], v) /\ FLt(v, bins[i + 1])

InDepBin(v, bins, i) ==
    /\ FLeq(bins[i], v)
    /\ IF i < Len(bins) - 1 THEN FLt(v, bins[i + 1]) ELSE FLeq(v, bins[i + 1])

\* line 138: itertools.product of the bin indices of every dimension
RECURSIVE Product(_)
Product(num_bins) ==
    IF num_bins = <<>> THEN {<<>>}
    ELSE {<<i>> \o r : i \in 1..Head(num_bins), r \in Product(Tail(num_bins))}

\* lines 139-144: the pairs selected for the bin combination idx
DepSel(dep_matrices, dep_bins, idx) ==
    {q \in DOMAIN dep_matrices[1] :
        \A dim \in DOMAIN dep_matrices :
            InDepBin(dep_matrices[dim][q], dep_bins[dim], idx[dim])}

\* lines 147-148 (and 201-202, 354-355): count_conn / count_all, NaN set to 0
ProbabilityKeepNaN(conn, all) == FDiv(conn, all)

Probability(conn, all) ==
    LET p == FDiv(conn, all) IN IF IsNaN(p) THEN Float(0) ELSE p

\* lines 124-150; E holds the connected pairs of the rows given
extract_dependent_p_conn(E, dep_matrices, dep_bins) ==
    LET num_bins   == [dim \in DOMAIN dep_bins |-> Len(dep_bins[dim]) - 1]
        grid       == Product(num_bins)
        count_all  == [idx \in grid |->
                         Cardinality(DepSel(dep_matrices, dep_bins, idx))]
        count_conn == [idx \in grid |->
                         Cardinality(DepSel(dep_matrices, dep_bins, idx) \cap E)]
    IN  [p_conn     |-> [idx \in grid |->
                           Probability(Float(count_conn[idx]), Float(count_all[idx]))],
         count_conn |-> count_conn,
         count_all  |-> count_all]

\* np.ceil(max_range_um / bin_size_um).astype(int)
CeilDiv(a, b) == (a + b - 1) \div b

\* np.arange(0, num_bins + 1) * bin_size_um
DistBins(num_bins, bin_size_um) == [i \in 1..(num_bins + 1) |-> Float((i - 1) * bin_size_um)]

\* lines 186, 336: np.split of the row indices into N_split parts of
\* ceil(N / N_split) rows, the last part taking what is left
SplitIndices(n, N_split) ==
    LET c == CeilDiv(n, N_split)
    IN  [k \in 1..N_split |->
            {i \in Nodes(n) : /\ (k - 1) * c <= i
                              /\ (k = N_split \/ i < k * c)}]

\* lines 187-198, 337-351: the sum of the counts of the splits
AccumulateLast(parts, field, grid) ==
    [idx \in grid |-> IF parts = <<>> THEN 0 ELSE parts[Len(parts)][field][idx]]

RECURSIVE Accumulate(_, _, _)
Accumulate(parts, field, grid) ==
    IF parts = <<>>
    THEN [idx \in grid |-> 0]
    ELSE LET rest == Accumulate(Tail(parts), field, grid)
         IN  [idx \in grid |-> Head(parts)[field][idx] + rest[idx]]

RowsOf(E, src) == {e \in E : e[1] \in src}

FiniteValues(mat) == {mat[q][1] : q \in {r \in DOMAIN mat : IsFinite(mat[r])}}

\* lines 158-204; max_range_um = 0 stands for None
extract_2nd_order(E, t, bin_size_um, max_range_um, N_split) ==
    LET all == DOMAIN t.pos
    IN  IF N_split = 1
        THEN LET dist_mat == compute_dist_matrix(t, all)
             IN  IF max_range_um = 0 /\ FiniteValues(dist_mat) = {}
                 THEN \* np.nanmax of an all-NaN matrix is NaN: no bins can be made
                      [status |-> "ValueError"]
                 ELSE
                 LET range     == IF max_range_um = 0
                                  THEN MaxOf(FiniteValues(dist_mat)) ELSE max_range_um
                     num_bins  == CeilDiv(range, bin_size_um)
                     dist_bins == DistBins(num_bins, bin_size_um)
                     r == extract_dependent_p_conn(E, <<dist_mat>>, <<dist_bins>>)
                 IN  [status |-> "ok", p_conn |-> r.p_conn,
                      count_conn |-> r.count_conn, count_all |-> r.count_all,
                      bins |-> <<dist_bins>>]
        ELSE IF max_range_um = 0
        THEN [status |-> "AssertionError"]
        ELSE LET num_bins  == CeilDiv(max_range_um, bin_size_um)
                 dist_bins == DistBins(num_bins, bin_size_um)
                 split     == SplitIndices(Cardinality(all), N_split)
                 parts     == [k \in 1..N_split |->
                                 extract_dependent_p_conn(RowsOf(E, split[k]),
                                     <<compute_dist_matrix(t, split[k])>>,
                                     <<dist_bins>>)]
                 grid       == Product(<<num_bins>>)
                 count_conn == Accumulate(parts, "count_conn", grid)
                 count_all  == Accumulate(parts, "count_all", grid)
             IN  [status |-> "ok",
                  p_conn |-> [idx \in grid |->
                                Probability(Float(count_conn[idx]), Float(count_all[idx]))],
                  count_conn |-> count_conn, count_all |-> count_all,
                  bins |-> <<dist_bins>>]

\* lines 300-357
extract_3rd_order(E, t, bin_size_um, max_range_um, N_split) ==
    LET all == DOMAIN t.pos
    IN  IF N_split = 1
        THEN LET dist_mat == compute_dist_matrix(t, all)
                 bip_mat  == compute_bip_matrix(t, all)
             IN  IF max_range_um = 0 /\ FiniteValues(dist_mat) = {}
                 THEN [status |-> "ValueError"]
                 ELSE
                 LET range     == IF max_range_um = 0
                                  THEN MaxOf(FiniteValues(dist_mat)) ELSE max_range_um
                     num_bins  == CeilDiv(range, bin_size_um)
                     dist_bins == DistBins(num_bins, bin_size_um)
                     bip_vals  == FiniteValues(bip_mat)
                     bip_bins  == <<Float(-MaxOf({-v : v \in bip_vals})), Float(0),
                                    Float(MaxOf(bip_vals))>>
                     r == extract_dependent_p_conn(E, <<dist_mat, bip_mat>>,
                                                   <<dist_bins, bip_bins>>)
                 IN  [status |-> "ok", p_conn |-> r.p_conn,
                      count_conn |-> r.count_conn, count_all |-> r.count_all,
                      bins |-> <<dist_bins, bip_bins>>]
        ELSE IF max_range_um = 0
        THEN [status |-> "AssertionError"]
        ELSE LET num_bins  == CeilDiv(max_range_um, bin_size_um)
                 dist_bins == DistBins(num_bins, bin_size_um)
                 bip_bins  == <<Float(-1), Float(0), Float(1)>>
                 split     == SplitIndices(Cardinality(all), N_split)
                 parts     == [k \in 1..N_split |->
                                 extract_dependent_p_conn(RowsOf(E, split[k]),
                                     <<compute_dist_matrix(t, split[k]),
                                       compute_bip_matrix(t, split[k])>>,
                                     <<dist_bins, bip_bins>>)]
                 grid       == Product(<<num_bins, 2>>)
                 count_conn == Accumulate(parts, "count_conn", grid)
                 count_all  == Accumulate(parts, "count_all", grid)
             IN  [status |-> "ok",
                  p_conn |-> [idx \in grid |->
                                Probability(Float(count_conn[idx]), Float(count_all[idx]))],
                  count_conn |-> count_conn, count_all |-> count_all,
                  bins |-> <<dist_bins, bip_bins>>]

(***************************************************************************)
(* Specification of the rich-club analyzers: the caller holds a boolean    *)
(* matrix and calls the naive and the efficient algorithm on it.           *)
(***************************************************************************)
NoTable == [tag |-> "none"]
NoCall == [op |-> "none"]
NoRet == [status |-> "none"]

\* the caller looks at the outcome of a call and goes on to the next call
Return ==
    /\ pc = "returned"
    /\ pc' = "idle"
    /\ call' = NoCall
    /\ ret' = NoRet
    /\ UNCHANGED <<M, nrn>>

InitRC ==
    /\ \E mask \in Masks(NumNodesRC * NumNodesRC, MaxEdgesRC) :
          M = Matrix(NumNodesRC, "csr", mask)
    /\ nrn = NoTable
    /\ pc = "idle"
    /\ call = NoCall
    /\ ret = NoRet

CallRichClubCurve ==
    \E direction \in {"efferent", "afferent", "both"} :
        /\ pc = "idle"
        /\ pc' = "returned"
        /\ call' = [op |-> "rich_club_curve", direction |-> direction]
        /\ ret' = rich_club_curve(M, direction)
        /\ UNCHANGED <<M, nrn>>

CallEfficientRichClubCurve ==
    \E direction \in {"efferent", "afferent", "both"}, sparse_bin_set \in BOOLEAN :
        /\ pc = "idle"
        /\ pc' = "returned"
        /\ call' = [op |-> "efficient_rich_club_curve", direction |-> direction,
                    sparse_bin_set |-> sparse_bin_set]
        /\ ret' = efficient_rich_club_curve(M, direction, sparse_bin_set)
        /\ UNCHANGED <<M, nrn>>

NextRC == CallRichClubCurve \/ CallEfficientRichClubCurve \/ Return

SpecRC == InitRC /\ [][NextRC]_vars

(***************************************************************************)
(* Specification of the shuffle and of the shuffled null model: the caller *)
(* holds a boolean matrix object M in some sparse format.                  *)
(***************************************************************************)
NumTrials == 10

Init ==
    /\ \E mask \in Masks(NumNodes * NumNodes, MaxEdges), fmt \in Formats :
          M = Matrix(NumNodes, fmt, mask)
    /\ nrn = NoTable
    /\ pc = "idle"
    /\ call = NoCall
    /\ ret = NoRet

\* m2 = generate_degree_based_control(M, direction)
CallGenerateDegreeBasedControl ==
    \E direction \in {"efferent", "afferent", "both"} :
      \E o \in generate_degree_based_control(M, direction) :
        LET same == direction \in {"efferent", "afferent"} /\ SameObject(M, direction)
        IN  /\ pc = "idle"
            /\ pc' = "returned"
            /\ call' = [op |-> "generate_degree_based_control",
                        direction |-> direction, E0 |-> M.E]
            /\ M' = IF same THEN [M EXCEPT !.E = o.E] ELSE M
            /\ ret' = IF o.status = "ok"
                      THEN [status |-> "ok", same |-> same,
                            m |-> [n |-> M.n, fmt |-> WorkFormat(direction), E |-> o.E]]
                      ELSE [status |-> o.status]
            /\ UNCHANGED nrn

\* M = generate_degree_based_control(M, direction): the caller goes on with
\* the shuffled matrix
Reassign ==
    /\ pc = "returned"
    /\ call.op = "generate_degree_based_control"
    /\ ret.status = "ok"
    /\ M' = ret.m
    /\ pc' = "idle"
    /\ call' = NoCall
    /\ ret' = NoRet
    /\ UNCHANGED nrn

\* _randomized_control_rich_club_curve(M, direction): entry
BeginRandomizedControl ==
    \E direction \in {"efferent", "afferent"} :
        /\ pc = "idle"
        /\ pc' = "trial"
        /\ call' = [op |-> "_randomized_control_rich_club_curve",
                    direction |-> direction, E0 |-> M.E, i |-> 0, m_in |-> M.E]
        /\ ret' = NoRet
        /\ UNCHANGED <<M, nrn>>

\* lines 188-190: one pass of the loop, a shuffle of m and the rich-club
\* curve of the shuffled matrix
Trial ==
    /\ pc = "trial"
    /\ call.i < NumTrials
    /\ \E o \in generate_degree_based_control(M, call.direction) :
        LET same   == SameObject(M, call.direction)
            m_shuf == [n |-> M.n, fmt |-> WorkFormat(call.direction), E |-> o.E]
            curve  == efficient_rich_club_curve(m_shuf, "efferent", FALSE)
        IN  /\ M' = IF same THEN [M EXCEPT !.E = o.E] ELSE M
            /\ call' = [call EXCEPT !.i = @ + 1, !.m_in = M.E]
            /\ IF o.status # "ok"
               THEN pc' = "returned" /\ ret' = [status |-> o.status]
               ELSE IF curve.status # "ok"
               THEN pc' = "returned" /\ ret' = [status |-> curve.status]
               ELSE pc' = "trial" /\ ret' = [status |-> "none", last |-> curve.curve]
            /\ UNCHANGED nrn

\* lines 191-196: after the loop the curves are concatenated and the mean is
\* taken of rr, a name that is not defined
EndRandomizedControl ==
    /\ pc = "trial"
    /\ call.i = NumTrials
    /\ pc' = "returned"
    /\ ret' = [status |-> "NameError"]
    /\ UNCHANGED <<M, nrn, call>>

Next ==
    \/ CallGenerateDegreeBasedControl
    \/ Reassign
    \/ BeginRandomizedControl
    \/ Trial
    \/ EndRandomizedControl
    \/ Return

Spec == Init /\ [][Next]_vars

\* the shuffle alone
NextShuffle == CallGenerateDegreeBasedControl \/ Reassign \/ Return

SpecShuffle == Init /\ [][NextShuffle]_vars

(***************************************************************************)
(* Specification of the Gini analyzer                                      *)
(***************************************************************************)
InitGini ==
    /\ \E mask \in Masks(NumNodesGini * NumNodesGini, MaxEdgesGini) :
          M = Matrix(NumNodesGini, "csc", mask)
    /\ nrn = NoTable
    /\ pc = "idle"
    /\ call = NoCall
    /\ ret = NoRet

CallGiniCurve ==
    \E direction \in {"efferent", "afferent", "both"} :
        /\ pc = "idle"
        /\ pc' = "returned"
        /\ call' = [op |-> "gini_curve", direction |-> direction]
        /\ ret' = gini_curve(M, direction)
        /\ UNCHANGED <<M, nrn>>

CallGiniCoefficient ==
    \E direction \in {"efferent", "afferent"} :
        /\ pc = "idle"
        /\ pc' = "returned"
        /\ call' = [op |-> "gini_coefficient", direction |-> direction]
        /\ ret' = gini_coefficient(M, direction)
        /\ UNCHANGED <<M, nrn>>

NextGini == CallGiniCurve \/ CallGiniCoefficient \/ Return

SpecGini == InitGini /\ [][NextGini]_vars

(***************************************************************************)
(* Specification of the normalized rich-club curve: the caller holds a     *)
(* boolean matrix object M and calls the analyzers, also with unsupported  *)
(* arguments.  normalized_rich_club_curve runs in steps: the observed      *)
(* curve, then the null curve (analytical, or the trials of the shuffled   *)
(* control), then the normalization.                                       *)
(***************************************************************************)
NoCurve == [status |-> "none", curve |-> <<>>]

\* lines 205-208: the observed curve
CallNormalizedRichClubCurve ==
    \E direction \in {"efferent", "afferent", "both"},
       normalize \in {"mean", "std", "median"},
       normalize_with \in {"analytical", "shuffled", "none"} :
        LET data == rich_club_curve(M, direction)
        IN  /\ pc = "idle"
            /\ call' = [op |-> "normalized_rich_club_curve", direction |-> direction,
                        normalize |-> normalize, normalize_with |-> normalize_with,
                        E0 |-> M.E, data |-> data, ctrl |-> NoCurve,
                        i |-> 0, m_in |-> M.E]
            /\ IF data.status # "ok"
               THEN pc' = "returned" /\ ret' = [status |-> data.status]
               ELSE pc' = "ctrl" /\ ret' = NoRet
            /\ UNCHANGED <<M, nrn>>

\* lines 209-210
AnalyticalControl ==
    /\ pc = "ctrl"
    /\ call.normalize_with = "analytical"
    /\ call' = [call EXCEPT
                   !.ctrl = analytical_expected_rich_club_curve(M, call.direction)]
    /\ pc' = "normalize"
    /\ UNCHANGED <<M, nrn, ret>>

\* lines 211-212: entry of _randomized_control_rich_club_curve, whose loop is
\* Trial and whose end is EndRandomizedControl
ShuffledControl ==
    /\ pc = "ctrl"
    /\ call.normalize_with = "shuffled"
    /\ pc' = "trial"
    /\ UNCHANGED <<M, nrn, call, ret>>

\* line 213: with any other normalize_with no branch assigns ctrl, and reading
\* it raises UnboundLocalError
NoControl ==
    /\ pc = "ctrl"
    /\ call.normalize_with \notin {"analytical", "shuffled"}
    /\ pc' = "returned"
    /\ ret' = [status |-> "UnboundLocalError"]
    /\ UNCHANGED <<M, nrn, call>>

\* lines 213-222
Normalize ==
    /\ pc = "normalize"
    /\ pc' = "returned"
    /\ ret' = Normalized(call.data.curve, call.ctrl.curve, call.normalize)
    /\ UNCHANGED <<M, nrn, call>>

NextNorm ==
    \/ CallNormalizedRichClubCurve
    \/ AnalyticalControl
    \/ ShuffledControl
    \/ Trial
    \/ EndRandomizedControl
    \/ NoControl
    \/ Normalize
    \/ CallGenerateDegreeBasedControl
    \/ CallRichClubCurve
    \/ CallGiniCurve
    \/ Return

SpecNorm == Init /\ [][NextNorm]_vars

(***************************************************************************)
(* Specification of the probability extractor: the caller holds an         *)
(* adjacency matrix and a neuron table and extracts the 2nd and 3rd order  *)
(* connection probabilities, whole or in row splits.                       *)
(***************************************************************************)
\* the splits the caller asks for divide the rows evenly
EvenSplits(n) == {k \in 1..n : n % k = 0}

InitExtract ==
    /\ \E mask \in Masks(NumNeurons * NumNeurons, MaxEdgesX) :
          M = Matrix(NumNeurons, "csr", mask)
    /\ nrn \in [pos : [Nodes(NumNeurons) -> 0..MaxPos],
                depth : [Nodes(NumNeurons) -> 0..MaxDepth]]
    /\ pc = "idle"
    /\ call = NoCall
    /\ ret = NoRet

CallExtract2ndOrder ==
    \E bin_size_um \in 1..MaxBinSize, max_range_um \in 0..MaxRange,
       N_split \in EvenSplits(M.n) :
        /\ pc = "idle"
        /\ pc' = "returned"
        /\ call' = [op |-> "extract_2nd_order", bin_size_um |-> bin_size_um,
                    max_range_um |-> max_range_um, N_split |-> N_split]
        /\ ret' = extract_2nd_order(M.E, nrn, bin_size_um, max_range_um, N_split)
        /\ UNCHANGED <<M, nrn>>

CallExtract3rdOrder ==
    \E bin_size_um \in 1..MaxBinSize, max_range_um \in 0..MaxRange,
       N_split \in EvenSplits(M.n) :
        /\ pc = "idle"
        /\ pc' = "returned"
        /\ call' = [op |-> "extract_3rd_order", bin_size_um |-> bin_size_um,
                    max_range_um |-> max_range_um, N_split |-> N_split]
        /\ ret' = extract_3rd_order(M.E, nrn, bin_size_um, max_range_um, N_split)
        /\ UNCHANGED <<M, nrn>>

NextExtract == CallExtract2ndOrder \/ CallExtract3rdOrder \/ Return

SpecExtract == InitExtract /\ [][NextExtract]_vars

(***************************************************************************)
(* C1: for every boolean square matrix and for direction efferent and      *)
(* afferent, the naive and the efficient rich-club curve carry, at every   *)
(* degree threshold present in both outputs, the same number of edges      *)
(* inside S_k = {nodes of degree >= k} and the same number of potential    *)
(* pairs |S_k| * (|S_k| - 1), hence the same value.                        *)
(***************************************************************************)
SameAtSharedThresholds(naive, eff) ==
    \A i \in DOMAIN naive : \A j \in DOMAIN eff :
        naive[i].k = eff[j].k =>
            /\ naive[i].edges = eff[j].edges
            /\ naive[i].pairs = eff[j].pairs
            /\ naive[i].val = eff[j].val

C1_NaiveEfficientAgree ==
    (call.op = "rich_club_curve" /\ ret.status = "ok") =>
        \A sparse_bin_set \in BOOLEAN :
            LET eff == efficient_rich_club_curve(M, call.direction, sparse_bin_set)
            IN  eff.status = "ok" => SameAtSharedThresholds(ret.curve, eff.curve)

\* a naive curve of two thresholds with edges inside the club, shared with the
\* efficient curve
C1_Witness ==
    /\ call.op = "rich_club_curve"
    /\ ret.status = "ok"
    /\ Len(ret.curve) >= 2
    /\ ret.curve[2].edges >= 1
    /\ ret.curve[1].edges > ret.curve[2].edges
    /\ LET eff == efficient_rich_club_curve(M, call.direction, FALSE)
       IN  /\ eff.status = "ok"
           /\ \E j \in DOMAIN eff.curve : eff.curve[j].k = 2

(***************************************************************************)
(* C2: generate_degree_based_control with direction efferent keeps, for    *)
(* every column, the number of nonzero entries of the column.              *)
(* The code resamples the column indices of every row: it keeps the number *)
(* of nonzero entries of every row, not of every column.                   *)
(***************************************************************************)
ShuffleReturned(direction) ==
    /\ pc = "returned"
    /\ call.op = "generate_degree_based_control"
    /\ call.direction = direction
    /\ ret.status = "ok"

C2_ColumnCountsKept ==
    ShuffleReturned("efferent") => ColSum(ret.m.E, M.n) = ColSum(call.E0, M.n)

\* amended: with direction efferent the count of every row is kept
C2_RowCountsKept ==
    ShuffleReturned("efferent") => RowSum(ret.m.E, M.n) = RowSum(call.E0, M.n)

C2_Witness ==
    /\ ShuffleReturned("efferent")
    /\ ret.m.E # call.E0
    /\ ColSum(ret.m.E, M.n) # ColSum(call.E0, M.n)
    /\ \E v \in Nodes(M.n) : RowSum(call.E0, M.n)[v] >= 2

(***************************************************************************)
(* C3: with direction efferent the shuffle keeps the out-degree of every   *)
(* node (the entries of a row stay distinct positions, as many as before), *)
(* with direction afferent it keeps the in-degree of every node, and in    *)
(* both cases the number of nonzero entries of the matrix is unchanged.    *)
(***************************************************************************)
C3_ShuffledAxisDegreesKept ==
    /\ ShuffleReturned("efferent") =>
          /\ RowSum(ret.m.E, M.n) = RowSum(call.E0, M.n)
          /\ Cardinality(ret.m.E) = Cardinality(call.E0)
    /\ ShuffleReturned("afferent") =>
          /\ ColSum(ret.m.E, M.n) = ColSum(call.E0, M.n)
          /\ Cardinality(ret.m.E) = Cardinality(call.E0)

C3_Witness ==
    /\ ShuffleReturned("afferent")
    /\ ret.m.E # call.E0
    /\ RowSum(ret.m.E, M.n) # RowSum(call.E0, M.n)
    /\ \E v \in Nodes(M.n) : ColSum(call.E0, M.n)[v] >= 2

(***************************************************************************)
(* C4: generate_degree_based_control never changes the matrix object it is *)
(* given, in whatever format and for both directions; so every trial of    *)
(* _randomized_control_rich_club_curve shuffles the original matrix and    *)
(* the caller's matrix is the same after the call as before.               *)
(***************************************************************************)
C4_InputMatrixUnchanged ==
    /\ (pc = "returned" /\ call.op = "generate_degree_based_control") =>
          M.E = call.E0
    /\ call.op = "_randomized_control_rich_club_curve" =>
          (call.m_in = call.E0 /\ M.E = call.E0)

(***************************************************************************)
(* C8: for both directions gini_curve sorts the degrees in descending      *)
(* order before accumulating: the k-th value of the curve is (sum of the k *)
(* largest degrees) / (sum of all degrees), so the increments of the curve *)
(* are non-increasing.                                                     *)
(***************************************************************************)
RECURSIVE SumOver(_, _)
SumOver(f, S) ==
    IF S = {} THEN 0
    ELSE LET x == CHOOSE y \in S : TRUE IN f[x] + SumOver(f, S \ {x})

\* the largest total degree of k nodes
TopKSum(degrees, k) ==
    MaxOf({SumOver(degrees, S) : S \in {T \in SUBSET DOMAIN degrees : Cardinality(T) = k}})

TopKShare(m, direction, k) ==
    LET degrees == DirDegrees(m, direction)
    IN  Div(TopKSum(degrees, k), SumOver(degrees, DOMAIN degrees))

C8_SortedDescending ==
    (call.op = "gini_curve" /\ ret.status = "ok") =>
        /\ Len(ret.curve) = M.n
        /\ \A k \in DOMAIN ret.curve :
              ret.curve[k].val = TopKShare(M, call.direction, k)

(***************************************************************************)
(* C9: gini_curve on N nodes places the cumulative share of the k highest  *)
(* degrees at rank k/N, k = 1..N: for degrees [3,1,1,1] the value 0.5 is   *)
(* at rank 0.25 and the value 1.0 at rank 1.0.                             *)
(* The code spreads the N points evenly from rank 0 to rank 1: point k is  *)
(* at rank (k-1)/(N-1).                                                    *)
(***************************************************************************)
NodeOrderDegrees(m, direction) == AsSeq(DirDegrees(m, direction), m.n)

C9_RankKOverN ==
    (call.op = "gini_curve" /\ ret.status = "ok") =>
        /\ \A k \in DOMAIN ret.curve : ret.curve[k].rank = Div(k, M.n)
        /\ NodeOrderDegrees(M, call.direction) = ExampleDegrees =>
              \E k \in DOMAIN ret.curve :
                  ret.curve[k] = [rank |-> Div(1, 4), val |-> Div(1, 2)]

\* amended: point k of the N points is at rank (k-1)/(N-1); with direction
\* afferent its value is the share of the k highest degrees; for degrees
\* [3,1,1,1] the value 0.5 is at rank 0 and the value 1.0 at rank 1.0
C9_RankEvenlySpaced ==
    (call.op = "gini_curve" /\ ret.status = "ok" /\ M.n >= 2) =>
        /\ Len(ret.curve) = M.n
        /\ \A k \in DOMAIN ret.curve :
              /\ ret.curve[k].rank = Div(k - 1, M.n - 1)
              /\ call.direction = "afferent" =>
                    ret.curve[k].val = TopKShare(M, "afferent", k)
        /\ NodeOrderDegrees(M, call.direction) = ExampleDegrees =>
              /\ ret.curve[1] = [rank |-> Float(0), val |-> Div(1, 2)]
              /\ ret.curve[4] = [rank |-> Float(1), val |-> Float(1)]

C9_Witness ==
    /\ call.op = "gini_curve"
    /\ ret.status = "ok"
    /\ NodeOrderDegrees(M, call.direction) = ExampleDegrees
    /\ ret.curve[1] = [rank |-> Float(0), val |-> Div(1, 2)]
    /\ ret.curve[2].rank = Div(1, 3)

(***************************************************************************)
(* C10: gini_coefficient of a perfectly regular graph (every node has the  *)
(* same nonzero degree in the chosen direction) is 0, and for every graph  *)
(* with at least one edge the value lies in [0, 1].                        *)
(* The code returns the trapezoid area under the curve of gini_curve,      *)
(* which is (N+1)/(2N) for a regular graph of N >= 2 nodes.                *)
(***************************************************************************)
Regular(m, direction) ==
    LET degrees == DirDegrees(m, direction)
    IN  /\ \A u, v \in DOMAIN degrees : degrees[u] = degrees[v]
        /\ \E v \in DOMAIN degrees : degrees[v] > 0

InUnitInterval(x) == FLeq(Float(0), x) /\ FLeq(x, Float(1))

C10_RegularIsZero ==
    (call.op = "gini_coefficient" /\ ret.status = "ok") =>
        /\ Regular(M, call.direction) => ret.val = Float(0)
        /\ M.E # {} => InUnitInterval(ret.val)

C10_RegularIsArea ==
    (call.op = "gini_coefficient" /\ ret.status = "ok" /\ M.n >= 2) =>
        /\ Regular(M, call.direction) => ret.val = Div(M.n + 1, 2 * M.n)
        /\ M.E # {} => InUnitInterval(ret.val)

C10_Witness ==
    /\ call.op = "gini_coefficient"
    /\ ret.status = "ok"
    /\ Regular(M, call.direction)
    /\ \E e \in M.E : e[1] # e[2]
    /\ FLt(Float(0), ret.val)

(***************************************************************************)
(* C5: for the same adjacency matrix, neuron table, bin size and           *)
(* max_range_um, extract_2nd_order and extract_3rd_order called with       *)
(* N_split > 1, N_split dividing the number of neurons, return count_conn, *)
(* count_all and probabilities equal, bin by bin, to those of N_split = 1. *)
(***************************************************************************)
ExtractReturned ==
    /\ pc = "returned"
    /\ call.op \in {"extract_2nd_order", "extract_3rd_order"}
    /\ ret.status = "ok"

Unsplit ==
    IF call.op = "extract_2nd_order"
    THEN extract_2nd_order(M.E, nrn, call.bin_size_um, call.max_range_um, 1)
    ELSE extract_3rd_order(M.E, nrn, call.bin_size_um, call.max_range_um, 1)

C5_SplitEqualsUnsplit ==
    (ExtractReturned /\ call.N_split > 1 /\ M.n % call.N_split = 0) =>
        /\ Unsplit.status = "ok"
        /\ ret.count_conn = Unsplit.count_conn
        /\ ret.count_all = Unsplit.count_all
        /\ ret.p_conn = Unsplit.p_conn

\* a split 3rd order extraction with connected pairs coming from two splits
C5_Witness ==
    /\ ExtractReturned
    /\ call.op = "extract_3rd_order"
    /\ call.N_split > 1 /\ M.n % call.N_split = 0
    /\ \E idx \in DOMAIN ret.count_conn :
          /\ ret.count_conn[idx] = 2
          /\ \E e, f \in M.E : e[1] # f[1]
          /\ ret.count_all[idx] > 2

(***************************************************************************)
(* C6: a pair is counted in bin i of a covariate exactly when              *)
(* edges[i] <= value < edges[i+1], or edges[i] <= value <= edges[i+1] for  *)
(* the last bin; hence a pair whose covariates are all not NaN and inside  *)
(* [first edge, last edge] is counted in exactly one cell, every other     *)
(* pair in none, and the counts of all cells sum to the number of such     *)
(* pairs.                                                                  *)
(***************************************************************************)
AllPairs == Cells(M.n)

Covariates ==
    IF call.op = "extract_2nd_order"
    THEN <<compute_dist_matrix(nrn, Nodes(M.n))>>
    ELSE <<compute_dist_matrix(nrn, Nodes(M.n)), compute_bip_matrix(nrn, Nodes(M.n))>>

Member(v, edges, i) ==
    /\ ~IsNaN(v)
    /\ FLeq(edges[i], v)
    /\ IF i = Len(edges) - 1 THEN FLeq(v, edges[i + 1]) ELSE FLt(v, edges[i + 1])

PairInCell(q, idx) ==
    \A d \in DOMAIN Covariates : Member(Covariates[d][q], ret.bins[d], idx[d])

PairInRange(q) ==
    \A d \in DOMAIN Covariates :
        /\ ~IsNaN(Covariates[d][q])
        /\ FLeq(ret.bins[d][1], Covariates[d][q])
        /\ FLeq(Covariates[d][q], ret.bins[d][Len(ret.bins[d])])

C6_BinMembership ==
    ExtractReturned =>
        /\ \A idx \in DOMAIN ret.count_all :
              ret.count_all[idx] = Cardinality({q \in AllPairs : PairInCell(q, idx)})
        /\ \A q \in AllPairs :
              Cardinality({idx \in DOMAIN ret.count_all : PairInCell(q, idx)})
                  = (IF PairInRange(q) THEN 1 ELSE 0)
        /\ SumOver(ret.count_all, DOMAIN ret.count_all)
              = Cardinality({q \in AllPairs : PairInRange(q)})

\* a pair on the last edge of the distance bins, a pair beyond it, the
\* self-pairs at distance NaN and a counted pair of equal depths
C6_Witness ==
    /\ ExtractReturned
    /\ call.op = "extract_3rd_order"
    /\ \E q \in AllPairs : Covariates[1][q] = ret.bins[1][Len(ret.bins[1])]
    /\ \E q \in AllPairs : FLt(ret.bins[1][Len(ret.bins[1])], Covariates[1][q])
    /\ \A v \in Nodes(M.n) : IsNaN(Covariates[1][<<v, v>>])
    /\ \E q \in AllPairs : Covariates[2][q] = Float(0) /\ PairInRange(q)

(***************************************************************************)
(* C7: for every bin combination with no pairs the probability is exactly  *)
(* 0 and never NaN, in the whole and in the split paths of both            *)
(* extractors; for every other bin it is count_conn / count_all with       *)
(* count_conn <= count_all.                                                *)
(***************************************************************************)
C7_ZeroPairsGiveZero ==
    ExtractReturned =>
        \A idx \in DOMAIN ret.p_conn :
            /\ ~IsNaN(ret.p_conn[idx])
            /\ ret.count_all[idx] = 0 => ret.p_conn[idx] = Float(0)
            /\ ret.count_all[idx] > 0 =>
                  /\ ret.p_conn[idx] = Div(ret.count_conn[idx], ret.count_all[idx])
                  /\ ret.count_conn[idx] <= ret.count_all[idx]

C7_Witness ==
    /\ ExtractReturned
    /\ call.N_split > 1
    /\ \E idx \in DOMAIN ret.p_conn :
          ret.count_all[idx] = 0 /\ ret.p_conn[idx] = Float(0)
    /\ \E idx \in DOMAIN ret.p_conn :
          ret.count_all[idx] = 2 /\ ret.p_conn[idx] = Div(1, 2)

(***************************************************************************)
(* C11: on the 4-node matrix with the edges 0->1, 0->2, 1->2, 2->3         *)
(* (efferent degrees 2, 1, 1, 0) rich_club_curve with direction efferent   *)
(* returns 2/6 at threshold 1 and NaN, without an error, at threshold 2;   *)
(* in general the value at a threshold whose node set has fewer than 2     *)
(* nodes is NaN.                                                           *)
(* The induced subgraph on the nodes 0, 1, 2 holds the three edges 0->1,   *)
(* 0->2 and 1->2, so the value at threshold 1 is 3/6; and a node set of    *)
(* one node gives +inf when the node carries a diagonal entry.             *)
(***************************************************************************)
NaiveReturned ==
    /\ pc = "returned"
    /\ call.op = "rich_club_curve"
    /\ ret.status = "ok"

OnExample == NaiveReturned /\ M.E = ExampleEdges /\ call.direction = "efferent"

\* S_k: the nodes of degree >= k in the direction of the call
Club(k) == {v \in Nodes(M.n) : DirDegrees(M, call.direction)[v] >= k}

\* the statement as written
C11_ExampleOneThird ==
    /\ OnExample =>
          /\ Len(ret.curve) = 2
          /\ ret.curve[1].val = Div(2, 6)
          /\ ret.curve[2].val = NaN
    /\ NaiveReturned =>
          \A i \in DOMAIN ret.curve :
              Cardinality(Club(ret.curve[i].k)) < 2 => ret.curve[i].val = NaN

\* amended: 3/6 on the example, and NaN for a node set of fewer than 2 nodes
\* unless it holds a diagonal entry, which gives +inf
C11_ExampleOneHalf ==
    /\ OnExample =>
          /\ Len(ret.curve) = 2
          /\ Club(1) = {0, 1, 2}
          /\ ret.curve[1].val = Div(3, 6)
          /\ Club(2) = {0}
          /\ ret.curve[2].val = NaN
    /\ NaiveReturned =>
          \A i \in DOMAIN ret.curve :
              Cardinality(Club(ret.curve[i].k)) < 2 =>
                  ret.curve[i].val =
                      IF \E v \in Club(ret.curve[i].k) : <<v, v>> \in M.E
                      THEN <<1, 0>> ELSE NaN

C11_Witness ==
    /\ OnExample
    /\ ret.curve[1].edges = 3
    /\ ret.curve[1].pairs = 6
    /\ ret.curve[2].pairs = 0

(***************************************************************************)
(* C12: normalized_rich_club_curve rejects an unsupported normalize and an *)
(* unsupported normalize_with with an invalid-argument error, and          *)
(* generate_degree_based_control, rich_club_curve and gini_curve reject an *)
(* unsupported direction likewise; each such error is raised before any    *)
(* partial computation: no observed or null curve has been computed, no    *)
(* random numbers have been drawn and the input matrix is unchanged when   *)
(* the error is reported.                                                  *)
(***************************************************************************)
InvalidArgument == {"Exception", "ValueError"}

UnsupportedNormalization ==
    /\ call.op = "normalized_rich_club_curve"
    /\ \/ call.normalize \notin {"mean", "std"}
       \/ call.normalize_with \notin {"analytical", "shuffled"}

UnsupportedDirection ==
    /\ call.op \in {"generate_degree_based_control", "rich_club_curve", "gini_curve"}
    /\ call.direction \notin {"efferent", "afferent"}

C12_RejectedBeforeComputation ==
    /\ UnsupportedNormalization =>
          \* nothing is computed on the way to the error
          /\ call.data.status # "ok"
          /\ call.ctrl.status # "ok"
          /\ call.i = 0
          /\ M.E = call.E0
          /\ pc = "returned"
          /\ ret.status \in InvalidArgument
    /\ (pc = "returned" /\ UnsupportedDirection) =>
          /\ ret.status \in InvalidArgument
          /\ call.op = "generate_degree_based_control" => M.E = call.E0
          /\ call.op # "generate_degree_based_control" => ret.curve = <<>>

(***************************************************************************)
(* C13: normalized_rich_club_curve with normalize_with = 'shuffled'        *)
(* completes and returns, for every threshold x of the common domain, the  *)
(* observed value at x transformed with the null mean and the null std     *)
(* taken at the same threshold x and in the same direction, the null being *)
(* computed over 10 degree-preserving shuffles: observed / mean for        *)
(* normalize = 'mean' and (observed - mean) / std for normalize = 'std'.   *)
(* The same threshold-for-threshold pairing holds with normalize_with =    *)
(* 'analytical'.                                                           *)
(***************************************************************************)
SupportedNormalization ==
    /\ call.op = "normalized_rich_club_curve"
    /\ call.direction \in {"efferent", "afferent"}
    /\ call.normalize \in {"mean", "std"}
    /\ call.normalize_with \in {"analytical", "shuffled"}

\* the value of the observed curve at threshold x, NaN where it has none
ObservedAt(x) ==
    IF \E j \in DOMAIN call.data.curve : call.data.curve[j].k = x
    THEN call.data.curve[CHOOSE j \in DOMAIN call.data.curve :
                            call.data.curve[j].k = x].val
    ELSE NaN

C13_PairedThresholdForThreshold ==
    /\ (pc = "returned" /\ SupportedNormalization) =>
          /\ ret.status = "ok"
          /\ \A i \in DOMAIN ret.curve :
                /\ ret.curve[i].ctrl_k = ret.curve[i].k
                /\ ret.curve[i].observed = ObservedAt(ret.curve[i].k)
    \* every null curve of the shuffled control lists the thresholds of the
    \* observed curve in the same positions, from the first trial on
    /\ (pc = "trial" /\ SupportedNormalization /\ call.i > 0) =>
          \A i \in DOMAIN call.data.curve :
              i \in DOMAIN ret.last /\ ret.last[i].k = call.data.curve[i].k

(***************************************************************************)
(* C14: the bipolar covariate of a pair (source, target) computed by       *)
(* compute_bip_matrix is the sign of (target depth - source depth), and in *)
(* extract_3rd_order the pairs with zero depth difference are counted in a *)
(* bin of their own, separate from the bin of the negative and from the    *)
(* bin of the positive differences.                                        *)
(* The code takes the sign of (source depth - target depth) and has two    *)
(* bipolar bins: the negative differences, and the zero together with the  *)
(* positive differences.                                                   *)
(***************************************************************************)
ThirdOrderReturned == ExtractReturned /\ call.op = "extract_3rd_order"

\* the pairs counted in distance bin i
InDistBin(i) ==
    {q \in AllPairs : Member(compute_dist_matrix(nrn, Nodes(M.n))[q], ret.bins[1], i)}

DepthDifference(q, from, to) == nrn.depth[q[to]] - nrn.depth[q[from]]

\* the statement as written: bins of sign -1, 0 and 1 of target - source
C14_TargetMinusSourceOwnZeroBin ==
    ThirdOrderReturned =>
        /\ Len(ret.bins[2]) - 1 = 3
        /\ \A idx \in DOMAIN ret.count_all :
              ret.count_all[idx] =
                  Cardinality({q \in InDistBin(idx[1]) :
                                  Sign(DepthDifference(q, 1, 2)) = idx[2] - 2})

\* amended: two bins of source - target, the first of the negative
\* differences, the second of the zero and the positive differences
C14_SourceMinusTargetTwoBins ==
    ThirdOrderReturned =>
        /\ Len(ret.bins[2]) - 1 = 2
        /\ \A idx \in DOMAIN ret.count_all :
              LET cell == {q \in InDistBin(idx[1]) :
                              IF idx[2] = 1 THEN DepthDifference(q, 2, 1) < 0
                              ELSE DepthDifference(q, 2, 1) >= 0}
              IN  /\ ret.count_all[idx] = Cardinality(cell)
                  /\ ret.count_conn[idx] = Cardinality(cell \cap M.E)

\* a counted connected pair of equal depths next to a counted pair of a
\* deeper target, in a split extraction
C14_Witness ==
    /\ ThirdOrderReturned
    /\ call.N_split > 1
    /\ \E idx \in DOMAIN ret.count_all :
          /\ idx[2] = 2
          /\ \E q \in InDistBin(idx[1]) \cap M.E : DepthDifference(q, 2, 1) = 0
          /\ \E q \in InDistBin(idx[1]) : DepthDifference(q, 2, 1) > 0
          /\ ret.count_all[idx] >= 2
    /\ \E idx \in DOMAIN ret.count_all :
          /\ idx[2] = 1
          /\ ret.count_conn[idx] >= 1

(***************************************************************************)
(* C15: for every supported direction (efferent, afferent, both) and for   *)
(* both values of sparse_bin_set, the value efficient_rich_club_curve      *)
(* reports at each threshold k of its output, k = 0 included, is (number   *)
(* of edges whose two endpoints both have degree >= k) / (|S_k| * (|S_k| - *)
(* 1)), where S_k is the set of ALL nodes of the matrix of degree >= k:    *)
(* nodes of degree zero are counted in S_0, so the value at threshold 0 is *)
(* the overall density nnz / (N * (N - 1)).                                *)
(***************************************************************************)
EfficientReturned ==
    /\ pc = "returned"
    /\ call.op = "efficient_rich_club_curve"
    /\ ret.status = "ok"

\* the degree of every node of the matrix in the direction of the call
FullDegrees ==
    [v \in Nodes(M.n) |->
        IF call.direction = "efferent" THEN RowSum(M.E, M.n)[v]
        ELSE IF call.direction = "afferent" THEN ColSum(M.E, M.n)[v]
        ELSE RowSum(M.E, M.n)[v] + ColSum(M.E, M.n)[v]]

AllNodesClub(k) == {v \in Nodes(M.n) : FullDegrees[v] >= k}

ClubValueAt(i) ==
    LET S     == AllNodesClub(ret.curve[i].k)
        edges == Cardinality({e \in M.E : e[1] \in S /\ e[2] \in S})
        pairs == Cardinality(S) * (Cardinality(S) - 1)
    IN  /\ ret.curve[i].edges = edges
        /\ ret.curve[i].pairs = pairs
        /\ ret.curve[i].val = Div(edges, pairs)

C15_AllNodesAtEveryThreshold ==
    EfficientReturned =>
        /\ \A i \in DOMAIN ret.curve : ClubValueAt(i)
        /\ \A i \in DOMAIN ret.curve :
              ret.curve[i].k = 0 =>
                  ret.curve[i].val = Div(Cardinality(M.E), M.n * (M.n - 1))

(***************************************************************************)
(* C16: for every square boolean matrix with at least one edge and no      *)
(* diagonal entries, and for both directions, generate_degree_based_control *)
(* completes without error (every row or column being resampled has at     *)
(* least as many candidates of nonzero weight, its own index excluded, as  *)
(* entries to draw) and its output again has no diagonal entries, so the   *)
(* property still holds after any number of successive shuffles.           *)
(***************************************************************************)
LoopFree(E) == \A e \in E : e[1] # e[2]

C16_ShuffleCompletesLoopFree ==
    (/\ pc = "returned"
     /\ call.op = "generate_degree_based_control"
     /\ call.direction \in {"efferent", "afferent"}
     /\ call.E0 # {}
     /\ LoopFree(call.E0)) =>
        /\ ret.status = "ok"
        /\ LoopFree(ret.m.E)
        /\ ret.m.E # {}

====
